---- MODULE Spec2Model ----
(***************************************************************************)
(* hostStats (src/hostStats.go): main loads config.json, writes the CSV    *)
(* header, starts one worker goroutine per vCenter, submits every vCenter  *)
(* on the buffered channel `vcenters`, closes it, receives one token per   *)
(* vCenter from the buffered channel `done`, and then appends every        *)
(* vCenter's Data to the CSV file in configuration order.                  *)
(*                                                                         *)
(* Indices: Go counts endpoints and workers from 0; the model counts them  *)
(* from 1 (endpoint j of the model is config.VCenters[j-1], worker w is    *)
(* the goroutine started as worker(w-1, ...)).                              *)
(***************************************************************************)
EXTENDS Integers, Sequences, FiniteSets, TLC

\* Bounds of the model: endpoints in the configuration, hosts per endpoint.
MaxEndpoints == 2
MaxHosts == 2

VARIABLES
  cfgOutcome,     \* how reading config.json ended (main, lines 96-109)
  vcenterCount,   \* len(config.VCenters) (line 118)
  outpathOk,      \* config.Outpath names a path that can be opened for writing
  file,           \* rows of the destination file at config.Outpath
  headerFault,    \* newCsv did not write the header (its error is ignored)
  exportFault,    \* some csvExport call returned an error (ignored by main)
  pcMain,         \* main's position
  spawnIdx,       \* i of the loop at lines 124-127
  submitIdx,      \* position of the loop at lines 129-132
  recvd,          \* i of the loop at lines 135-137
  mergeIdx,       \* position of the loop at lines 140-143
  spawned,        \* worker goroutines started by `go worker(...)`
  exited,         \* the process was ended by log.Fatal (os.Exit(1))
  vcenters,       \* the job channel: buffered jobs, in order
  closed,         \* close(vcenters) happened
  done,           \* the completion channel: number of buffered tokens
  pcW,            \* each worker's position
  job,            \* the vcenter a worker received and is processing (0: none)
  hi,             \* position of the loop over hss at lines 235-263 (hosts handled)
  client,         \* vcenter.client # nil
  Data,           \* vcenter.Data
  Worker,         \* vcenter.Worker (-1: not set yet)
  takers,         \* history: the workers that received each job, in order
  signals,        \* history: number of `done <- true` executed for each job
  connAttempted,  \* history: jobs for which Connect was called
  connFailed,     \* history: jobs whose Connect returned an error
  collFailed,     \* history: jobs whose Init hit an error
  discFailed,     \* history: jobs whose Disconnect returned an error
  pcRec,          \* position in the making of one host's record (lines 241-261)
  hs,             \* the mo.HostSystem values Init reads for that host
  stats,          \* the hostStat built at lines 244-260
  row             \* hostStat.Slice(stats), line 261

cfgVars  == <<cfgOutcome, vcenterCount, outpathOk>>
sinkVars == <<file, headerFault, exportFault>>
loopVars == <<spawnIdx, submitIdx, recvd, mergeIdx>>
chanVars == <<vcenters, closed, done>>
wVars    == <<pcW, job, hi>>
jobVars  == <<client, Data, Worker>>
histVars == <<takers, signals, connAttempted, connFailed, collFailed, discFailed>>
recVars  == <<pcRec, hs, stats, row>>
pipeVars == <<cfgVars, sinkVars, pcMain, loopVars, spawned, exited, chanVars,
              wVars, jobVars, histVars>>
vars == <<pipeVars, recVars>>

Endpoints == 1..vcenterCount

\* The header row written by newCsv (hostStat.Headers), and the row
\* hostStat.Slice produces for host h of endpoint j.
HeaderRow == <<0, 0>>
Row(j, h) == <<j, h>>

\* main has not read config.json yet; no goroutine runs.
PipeInit ==
  /\ cfgOutcome = "unread"
  /\ vcenterCount = 0
  /\ outpathOk = FALSE
  /\ file = <<>>
  /\ headerFault = FALSE
  /\ exportFault = FALSE
  /\ pcMain = "load"
  /\ spawnIdx = 0 /\ submitIdx = 0 /\ recvd = 0 /\ mergeIdx = 0
  /\ spawned = {}
  /\ exited = FALSE
  /\ vcenters = <<>>
  /\ closed = FALSE
  /\ done = 0
  /\ pcW = <<>> /\ job = <<>> /\ hi = <<>>
  /\ client = <<>> /\ Data = <<>> /\ Worker = <<>>
  /\ takers = <<>> /\ signals = <<>>
  /\ connAttempted = {} /\ connFailed = {} /\ collFailed = {} /\ discFailed = {}

\* In Spec a host's record is the row Row(j, h); the record variables rest.
NoRecord == <<>>
Init ==
  /\ PipeInit
  /\ pcRec = "idle"
  /\ hs = NoRecord
  /\ stats = NoRecord
  /\ row = NoRecord

(***************************************************************************)
(* main, lines 96-109: os.Open and json Decode.  Both errors are printed   *)
(* and main goes on.  With the file unopened or the JSON syntactically     *)
(* invalid, config stays the zero Configuration.  With a value of the      *)
(* wrong type for a field (UnmarshalTypeError), Decode skips that field,   *)
(* decodes the rest and returns the error: VCenters may be populated.      *)
(***************************************************************************)
ConfigOutcomes == {"ok", "openfail", "syntaxerr", "typeerr"}
ConfigError(o) == o \in {"openfail", "syntaxerr", "typeerr"}
DecodedCount(o, n) == IF o \in {"openfail", "syntaxerr"} THEN 0 ELSE n
DecodedPathOk(o, p) == IF o \in {"openfail", "syntaxerr"} THEN FALSE ELSE p

LoadConfig ==
  /\ ~exited
  /\ UNCHANGED recVars
  /\ pcMain = "load"
  /\ \E o \in ConfigOutcomes, n \in 0..MaxEndpoints, p \in BOOLEAN :
       /\ cfgOutcome' = o
       /\ vcenterCount' = DecodedCount(o, n)
       /\ outpathOk' = DecodedPathOk(o, p)
       /\ pcW' = [w \in 1..DecodedCount(o, n) |-> "unstarted"]
       /\ job' = [w \in 1..DecodedCount(o, n) |-> 0]
       /\ hi' = [w \in 1..DecodedCount(o, n) |-> 0]
       /\ client' = [j \in 1..DecodedCount(o, n) |-> FALSE]
       /\ Data' = [j \in 1..DecodedCount(o, n) |-> <<>>]
       /\ Worker' = [j \in 1..DecodedCount(o, n) |-> -1]
       /\ takers' = [j \in 1..DecodedCount(o, n) |-> <<>>]
       /\ signals' = [j \in 1..DecodedCount(o, n) |-> 0]
  /\ pcMain' = "newcsv"
  /\ UNCHANGED <<sinkVars, loopVars, spawned, exited, chanVars,
                 connAttempted, connFailed, collFailed, discFailed>>

(***************************************************************************)
(* newCsv, lines 269-283, called at line 114 with its result dropped.      *)
(*   createfail: os.Create fails, nothing is written;                      *)
(*   writefail : the file is created (truncated) and the header write or   *)
(*               the deferred Flush fails, which newCsv does not report;   *)
(*   ok        : the file holds the header row alone.                      *)
(***************************************************************************)
NewCsvOutcomes == IF outpathOk THEN {"ok", "createfail", "writefail"}
                  ELSE {"createfail"}

NewCsv ==
  /\ ~exited
  /\ UNCHANGED recVars
  /\ pcMain = "newcsv"
  /\ \E o \in NewCsvOutcomes :
       /\ file' = CASE o = "ok" -> <<HeaderRow>>
                    [] o = "writefail" -> <<>>
                    [] OTHER -> file
       /\ headerFault' = (o # "ok")
  /\ pcMain' = "spawn"
  /\ UNCHANGED <<cfgVars, exportFault, loopVars, spawned, exited, chanVars,
                 wVars, jobVars, histVars>>

\* Lines 124-127: vcenter.Worker = i; go worker(i, ...).
Spawn ==
  /\ ~exited
  /\ UNCHANGED recVars
  /\ pcMain = "spawn"
  /\ spawnIdx < vcenterCount
  /\ Worker' = [Worker EXCEPT ![spawnIdx + 1] = spawnIdx + 1]
  /\ spawned' = spawned \cup {spawnIdx + 1}
  /\ pcW' = [pcW EXCEPT ![spawnIdx + 1] = "recv"]
  /\ spawnIdx' = spawnIdx + 1
  /\ UNCHANGED <<cfgVars, sinkVars, pcMain, submitIdx, recvd, mergeIdx, exited,
                 chanVars, job, hi, client, Data, histVars>>

SpawnEnd ==
  /\ ~exited
  /\ UNCHANGED recVars
  /\ pcMain = "spawn"
  /\ spawnIdx = vcenterCount
  /\ pcMain' = "submit"
  /\ UNCHANGED <<cfgVars, sinkVars, loopVars, spawned, exited, chanVars,
                 wVars, jobVars, histVars>>

\* Line 120: make(chan *VCenter, vcenterCount); line 121: make(chan bool, vcenterCount).
ChanCapSmall == vcenterCount - 1
ChanCap == vcenterCount

\* Lines 129-132: vcenters <- vcenter (blocks while the buffer is full).
Submit ==
  /\ ~exited
  /\ UNCHANGED recVars
  /\ pcMain = "submit"
  /\ submitIdx < vcenterCount
  /\ Len(vcenters) < ChanCap
  /\ vcenters' = Append(vcenters, submitIdx + 1)
  /\ submitIdx' = submitIdx + 1
  /\ UNCHANGED <<cfgVars, sinkVars, pcMain, spawnIdx, recvd, mergeIdx, spawned,
                 exited, closed, done, wVars, jobVars, histVars>>

\* Lines 133-137: after close(vcenters) main enters the barrier loop.
AfterCloseNoBarrier == "merge"
AfterClose == "wait"

\* Line 133: close(vcenters).
Close ==
  /\ ~exited
  /\ UNCHANGED recVars
  /\ pcMain = "submit"
  /\ submitIdx = vcenterCount
  /\ closed' = TRUE
  /\ pcMain' = AfterClose
  /\ UNCHANGED <<cfgVars, sinkVars, loopVars, spawned, exited, vcenters, done,
                 wVars, jobVars, histVars>>

\* Line 135: the condition of the barrier loop.
WaitLoopCondShort == recvd < vcenterCount - 1
WaitLoopCondLong == recvd <= vcenterCount
WaitLoopCond == recvd < vcenterCount

\* Line 136: <-done (blocks while the buffer is empty).
Wait ==
  /\ ~exited
  /\ UNCHANGED recVars
  /\ pcMain = "wait"
  /\ WaitLoopCond
  /\ done > 0
  /\ done' = done - 1
  /\ recvd' = recvd + 1
  /\ UNCHANGED <<cfgVars, sinkVars, pcMain, spawnIdx, submitIdx, mergeIdx,
                 spawned, exited, vcenters, closed, wVars, jobVars, histVars>>

WaitEnd ==
  /\ ~exited
  /\ UNCHANGED recVars
  /\ pcMain = "wait"
  /\ ~WaitLoopCond
  /\ pcMain' = "merge"
  /\ UNCHANGED <<cfgVars, sinkVars, loopVars, spawned, exited, chanVars,
                 wVars, jobVars, histVars>>

(***************************************************************************)
(* csvExport, lines 285-301, called at line 142 with its result dropped.   *)
(*   openfail : os.OpenFile fails, nothing is appended;                    *)
(*   writefail: a write fails after k < len(data) rows reached the file;   *)
(*   ok       : every row of data is appended (O_APPEND).                  *)
(***************************************************************************)
Prefix(s, k) == SubSeq(s, 1, k)
CsvAppendTrunc(f, rows) == rows
CsvAppend(f, rows) == f \o rows

\* Line 140: the endpoint the merge loop handles next (range config.VCenters).
NextToMergeReversed == vcenterCount - mergeIdx
NextToMerge == mergeIdx + 1

CsvExport ==
  /\ ~exited
  /\ UNCHANGED recVars
  /\ pcMain = "merge"
  /\ mergeIdx < vcenterCount
  /\ \/ /\ outpathOk
        /\ file' = CsvAppend(file, Data[NextToMerge])
        /\ UNCHANGED exportFault
     \/ /\ file' = file
        /\ exportFault' = TRUE
     \/ /\ outpathOk
        /\ \E k \in 0..(Len(Data[NextToMerge]) - 1) :
             file' = CsvAppend(file, Prefix(Data[NextToMerge], k))
        /\ exportFault' = TRUE
  /\ mergeIdx' = mergeIdx + 1
  /\ UNCHANGED <<cfgVars, headerFault, pcMain, spawnIdx, submitIdx, recvd,
                 spawned, exited, chanVars, wVars, jobVars, histVars>>

\* Line 144: "Results saved"; main returns and the process ends.
MergeEnd ==
  /\ ~exited
  /\ UNCHANGED recVars
  /\ pcMain = "merge"
  /\ mergeIdx = vcenterCount
  /\ pcMain' = "done"
  /\ UNCHANGED <<cfgVars, sinkVars, loopVars, spawned, exited, chanVars,
                 wVars, jobVars, histVars>>

MainNext ==
  \/ LoadConfig
  \/ NewCsv
  \/ Spawn
  \/ SpawnEnd
  \/ Submit
  \/ Close
  \/ Wait
  \/ WaitEnd
  \/ CsvExport
  \/ MergeEnd

\* Goroutines run while the process lives: until log.Fatal or main's return.
Alive == ~exited /\ pcMain # "done"

(***************************************************************************)
(* worker, lines 147-166: for vcenter := range vcenters { ... }            *)
(***************************************************************************)

\* Line 148: a receive takes the head of the buffer out of the channel.
DequeuePeek(q) == q
Dequeue(q) == Tail(q)

Recv(w) ==
  /\ Alive
  /\ UNCHANGED recVars
  /\ w \in spawned
  /\ pcW[w] = "recv"
  /\ vcenters # <<>>
  /\ job' = [job EXCEPT ![w] = Head(vcenters)]
  /\ vcenters' = Dequeue(vcenters)
  /\ takers' = [takers EXCEPT ![Head(vcenters)] = Append(@, w)]
  /\ pcW' = [pcW EXCEPT ![w] = "connect"]
  /\ UNCHANGED <<cfgVars, sinkVars, pcMain, loopVars, spawned, exited, closed,
                 done, hi, jobVars, signals, connAttempted, connFailed,
                 collFailed, discFailed>>

\* Line 148: range over a closed and drained channel ends; the worker returns.
WorkerExit(w) ==
  /\ Alive
  /\ UNCHANGED recVars
  /\ w \in spawned
  /\ pcW[w] = "recv"
  /\ vcenters = <<>>
  /\ closed
  /\ pcW' = [pcW EXCEPT ![w] = "exit"]
  /\ UNCHANGED <<cfgVars, sinkVars, pcMain, loopVars, spawned, exited, chanVars,
                 job, hi, jobVars, histVars>>

\* Lines 152-156: where the worker goes when Connect returned an error.
AfterConnectErrorFallThrough == "init"
AfterConnectErrorNoSignal == "recv"
AfterConnectError == "sigfail"

\* Lines 152 and 169-191: vcenter.Connect().  url.Parse or govmomi.NewClient
\* fails and the error is returned, or vcenter.client is set.
Connect(w) ==
  /\ Alive
  /\ UNCHANGED recVars
  /\ w \in spawned
  /\ pcW[w] = "connect"
  /\ connAttempted' = connAttempted \cup {job[w]}
  /\ \/ /\ connFailed' = connFailed \cup {job[w]}
        /\ pcW' = [pcW EXCEPT ![w] = AfterConnectError]
        /\ UNCHANGED client
     \/ /\ client' = [client EXCEPT ![job[w]] = TRUE]
        /\ pcW' = [pcW EXCEPT ![w] = "init"]
        /\ UNCHANGED connFailed
  /\ UNCHANGED <<cfgVars, sinkVars, pcMain, loopVars, spawned, exited, chanVars,
                 job, hi, Data, Worker, takers, signals, collFailed,
                 discFailed>>

\* Lines 154-155: done <- true (blocks while the buffer is full); continue.
SendDoneFail(w) ==
  /\ Alive
  /\ UNCHANGED recVars
  /\ w \in spawned
  /\ pcW[w] = "sigfail"
  /\ done < ChanCap
  /\ done' = done + 1
  /\ signals' = [signals EXCEPT ![job[w]] = @ + 1]
  /\ pcW' = [pcW EXCEPT ![w] = "recv"]
  /\ UNCHANGED <<cfgVars, sinkVars, pcMain, loopVars, spawned, exited, vcenters,
                 closed, job, hi, jobVars, takers, connAttempted,
                 connFailed, collFailed, discFailed>>

(***************************************************************************)
(* VCenter.Init, lines 209-267.  Every error inside Init goes to           *)
(* log.Fatal(err) (lines 222, 230, 239), which prints and calls            *)
(* os.Exit(1): the whole process ends there, deferred calls do not run,    *)
(* and Init never returns a non-nil error.                                 *)
(***************************************************************************)
InitErrorReturned(w) ==
  /\ collFailed' = collFailed \cup {job[w]}
  /\ pcW' = [pcW EXCEPT ![w] = "sigdone"]
  /\ UNCHANGED exited
InitError(w) ==
  /\ collFailed' = collFailed \cup {job[w]}
  /\ exited' = TRUE
  /\ UNCHANGED pcW

\* Lines 214-231: CreateContainerView and Retrieve fail, or Retrieve fills
\* hss.  client.Client on a nil client (line 217) is a nil dereference: the
\* runtime panics and the process ends.
InitView(w) ==
  /\ Alive
  /\ UNCHANGED recVars
  /\ w \in spawned
  /\ pcW[w] = "init"
  /\ IF ~client[job[w]]
     THEN /\ exited' = TRUE
          /\ UNCHANGED <<pcW, hi, collFailed>>
     ELSE \/ /\ InitError(w)
             /\ UNCHANGED hi
          \/ /\ hi' = [hi EXCEPT ![w] = 0]
             /\ pcW' = [pcW EXCEPT ![w] = "hosts"]
             /\ UNCHANGED <<exited, collFailed>>
  /\ UNCHANGED <<cfgVars, sinkVars, pcMain, loopVars, spawned, chanVars, job,
                 jobVars, takers, signals, connAttempted, connFailed, discFailed>>

\* Lines 235-263: one iteration of the loop over hss: RetrieveOne of the
\* cluster name, then vcenter.Data = append(vcenter.Data, hostStat.Slice(stats)).
\* The endpoint decides how many hosts hss holds (at most MaxHosts here):
\* the loop has another host (this action) or has ended (Disconnect).
HostStep(w) ==
  /\ Alive
  /\ UNCHANGED recVars
  /\ w \in spawned
  /\ pcW[w] = "hosts"
  /\ hi[w] < MaxHosts
  /\ \/ /\ InitError(w)
        /\ UNCHANGED <<hi, Data>>
     \/ /\ Data' = [Data EXCEPT ![job[w]] = Append(@, Row(job[w], hi[w] + 1))]
        /\ hi' = [hi EXCEPT ![w] = @ + 1]
        /\ UNCHANGED <<exited, collFailed, pcW>>
  /\ UNCHANGED <<cfgVars, sinkVars, pcMain, loopVars, spawned, chanVars, job,
                 client, Worker, takers, signals, connAttempted,
                 connFailed, discFailed>>

\* Lines 162-163: where the worker goes when Disconnect returned an error
\* (the error is dropped: the next statement is done <- true).
AfterDisconnectErrorNoSignal == "recv"
AfterDisconnectError == "sigdone"

\* Lines 265 and 157-162: the loop over hss has ended, Init returns nil, the
\* worker prints "Done" and calls vcenter.Disconnect() (lines 194-206):
\* Logout may fail, and the worker drops the error.  vcenter.client is left
\* as it is.
Disconnect(w) ==
  /\ Alive
  /\ UNCHANGED recVars
  /\ w \in spawned
  /\ pcW[w] = "hosts"
  /\ \/ /\ client[job[w]]
        /\ discFailed' = discFailed \cup {job[w]}
        /\ pcW' = [pcW EXCEPT ![w] = AfterDisconnectError]
     \/ /\ UNCHANGED discFailed
        /\ pcW' = [pcW EXCEPT ![w] = "sigdone"]
  /\ hi' = [hi EXCEPT ![w] = 0]
  /\ UNCHANGED <<cfgVars, sinkVars, pcMain, loopVars, spawned, exited, chanVars,
                 job, jobVars, takers, signals, connAttempted,
                 connFailed, collFailed>>

\* Line 163: done <- true (blocks while the buffer is full).
SendDone(w) ==
  /\ Alive
  /\ UNCHANGED recVars
  /\ w \in spawned
  /\ pcW[w] = "sigdone"
  /\ done < ChanCap
  /\ done' = done + 1
  /\ signals' = [signals EXCEPT ![job[w]] = @ + 1]
  /\ pcW' = [pcW EXCEPT ![w] = "recv"]
  /\ UNCHANGED <<cfgVars, sinkVars, pcMain, loopVars, spawned, exited, vcenters,
                 closed, job, hi, jobVars, takers, connAttempted,
                 connFailed, collFailed, discFailed>>

WorkerNext(w) ==
  \/ Recv(w)
  \/ WorkerExit(w)
  \/ Connect(w)
  \/ SendDoneFail(w)
  \/ InitView(w)
  \/ HostStep(w)
  \/ Disconnect(w)
  \/ SendDone(w)

Next == MainNext \/ \E w \in 1..MaxEndpoints : WorkerNext(w)

Spec == Init /\ [][Next]_vars

\* The Go scheduler runs every goroutine that can take a step: main and each
\* worker that stays runnable eventually moves.  (A call that returns is a
\* step; which way it returns is not the scheduler's choice.)
FairSpec ==
  /\ Spec
  /\ WF_vars(MainNext)
  /\ \A w \in 1..MaxEndpoints : WF_vars(WorkerNext(w))

(***************************************************************************)
(* The record of one host: the arithmetic of Init (lines 241-260) and the  *)
(* flattening of Slice (lines 56-76).                                      *)
(*                                                                         *)
(* A Go integer of k bytes is its little-endian two's-complement byte      *)
(* string, so that every operation keeps the width of its Go type (TLC's   *)
(* own integers end at 2^31 - 1).  A Go string is a sequence of            *)
(* one-character strings.                                                  *)
(***************************************************************************)
Int16Bytes == 2
Int32Bytes == 4
Int64Bytes == 8
\* Width of the reference arithmetic the properties compare against: wide
\* enough that no product or difference of the values below wraps.
WideBytes == 12

\* The k-byte integer with value n (n within TLC's range).
RECURSIVE ToBytes(_, _)
ToBytes(n, k) ==
  IF k = 0 THEN <<>> ELSE <<n % 256>> \o ToBytes(n \div 256, k - 1)

\* Carry propagation over per-byte sums; the carry out of the top byte is
\* dropped, which is the wrap-around of fixed-width arithmetic.
RECURSIVE Carry(_, _)
Carry(c, carry) ==
  IF c = <<>> THEN <<>>
  ELSE <<(Head(c) + carry) % 256>> \o Carry(Tail(c), (Head(c) + carry) \div 256)

RECURSIVE Dot(_, _, _, _)
Dot(a, b, i, p) ==
  IF p = 0 THEN 0 ELSE a[p] * b[i - p + 1] + Dot(a, b, i, p - 1)

\* a * b and a - b for two integers of the same width, in that width.
Mul(a, b) == Carry([i \in 1..Len(a) |-> Dot(a, b, i, i)], 0)
Sub(a, b) == Carry([i \in 1..Len(a) |-> a[i] - b[i]], 0)

IsNeg(a) == a[Len(a)] >= 128
IsZero(a) == \A i \in 1..Len(a) : a[i] = 0

\* The conversion of a to a type of k bytes, k >= Len(a): sign extension.
Extend(a, k) ==
  a \o [i \in 1..(k - Len(a)) |-> IF IsNeg(a) THEN 255 ELSE 0]

\* int64(x), line 241-243 and 63-68.
Int64(a) == Extend(a, Int64Bytes)

\* Quotient and remainder of the unsigned value of a by d, 0 < d <= 1024.
\* Long division from the top byte down, rem being the remainder so far.
RECURSIVE QuotFrom(_, _, _, _)
QuotFrom(a, d, i, rem) ==
  IF i = 0 THEN <<>>
  ELSE QuotFrom(a, d, i - 1, (rem * 256 + a[i]) % d) \o <<(rem * 256 + a[i]) \div d>>
RECURSIVE RemFrom(_, _, _, _)
RemFrom(a, d, i, rem) ==
  IF i = 0 THEN rem ELSE RemFrom(a, d, i - 1, (rem * 256 + a[i]) % d)
Quot(a, d) == QuotFrom(a, d, Len(a), 0)
Rem(a, d) == RemFrom(a, d, Len(a), 0)

Digit(d) == <<"0", "1", "2", "3", "4", "5", "6", "7", "8", "9">>[d + 1]

RECURSIVE Digits(_)
Digits(a) ==
  IF IsZero(Quot(a, 10)) THEN <<Digit(Rem(a, 10))>>
  ELSE Digits(Quot(a, 10)) \o <<Digit(Rem(a, 10))>>

\* strconv.FormatInt(a, 10) for an int64 a, lines 63-68.
FormatInt(a) ==
  IF IsNeg(a) THEN <<"-">> \o Digits(Sub(ToBytes(0, Len(a)), a))
  ELSE Digits(a)

\* units.ByteSize(a).String(), lines 71-73: "%dB" below 1 KB (and for a
\* negative count), else the count over the largest unit 1024^u not above
\* it, with one decimal, followed by the unit's name.
RECURSIVE UnitOf(_)
UnitOf(a) ==
  IF IsNeg(a) \/ IsZero(Quot(a, 1024)) THEN 0 ELSE 1 + UnitOf(Quot(a, 1024))

RECURSIVE Shift10(_, _)
Shift10(a, u) == IF u = 0 THEN a ELSE Shift10(Quot(a, 1024), u - 1)

UnitName(u) == <<<<"K", "B">>, <<"M", "B">>, <<"G", "B">>,
                 <<"T", "B">>, <<"P", "B">>, <<"E", "B">>>>[u]

\* "%.1f" of whole + frac/1024: the tenths are rounded to nearest.
OneDecimal(whole, frac) ==
  LET t == (frac * 10 + 512) \div 1024
      w == IF t = 10 THEN Sub(whole, ToBytes(-1, Len(whole))) ELSE whole
  IN  Digits(w) \o <<".">> \o <<Digit(IF t = 10 THEN 0 ELSE t)>>

ByteSizeString(a) ==
  LET u == UnitOf(a)
      below == Shift10(a, u - 1)
  IN  IF u = 0 THEN FormatInt(a) \o <<"B">>
      ELSE OneDecimal(Quot(below, 1024), Rem(below, 1024)) \o UnitName(u)

\* The values Init reads from one mo.HostSystem and its cluster (lines
\* 236-258), each in its Go type: CpuMhz, OverallCpuUsage and
\* OverallMemoryUsage (MiB) are int32, NumCpu* are int16, MemorySize (bytes)
\* is int64.
Int16(n) == ToBytes(n, Int16Bytes)
Int32(n) == ToBytes(n, Int32Bytes)
GiB(n) == Mul(Int64(Int32(n)), Int64(Int32(1073741824)))

CpuMhzValues == {2500, 2147483647}
NumCpuCoresValues == {8, 32767}
OverallCpuUsageValues == {0, 5000, 2147483647}
MemorySizeValues == {GiB(16), GiB(512)}
OverallMemoryUsageValues == {0, 1024, 6000}

HostInputs ==
  [ClusterName : {<<"c", "l">>},
   Name : {<<"e", "s", "x">>},
   Version : {<<"7">>},
   Build : {<<"b", "1">>},
   Vendor : {<<"v", "n">>},
   Model : {<<"m", "d">>},
   CpuModel : {<<"x", "e">>},
   NumCpuPkgs : {Int16(2)},
   NumCpuCores : {Int16(n) : n \in NumCpuCoresValues},
   NumCpuThreads : {Int16(16)},
   CpuMhz : {Int32(n) : n \in CpuMhzValues},
   OverallCpuUsage : {Int32(n) : n \in OverallCpuUsageValues},
   MemorySize : MemorySizeValues,
   OverallMemoryUsage : {Int32(n) : n \in OverallMemoryUsageValues}]

\* Line 241, and the same product computed in int32 before the conversion.
TotalCPUInt32(h) == Int64(Mul(h.CpuMhz, Extend(h.NumCpuCores, Int32Bytes)))
TotalCPU(h) == Mul(Int64(h.CpuMhz), Int64(h.NumCpuCores))
\* Line 242.
FreeCPU(h) == Sub(Int64(TotalCPU(h)), Int64(h.OverallCpuUsage))
\* Line 243.
FreeMemory(h) ==
  Sub(Int64(h.MemorySize),
      Mul(Mul(Int64(h.OverallMemoryUsage), Int64(Int32(1024))), Int64(Int32(1024))))

\* Lines 244-260: the hostStat literal.  MemorySize (int32) receives the
\* used memory in MiB and OverallMemoryUsage (int64) the memory size in bytes.
HostStatOf(h) ==
  [Cluster |-> h.ClusterName,
   Host |-> h.Name,
   Build |-> h.Build,
   Version |-> h.Version,
   Model |-> h.Model,
   Vendor |-> h.Vendor,
   TotalCPU |-> TotalCPU(h),
   FreeCPU |-> FreeCPU(h),
   NumCpuPkgs |-> h.NumCpuPkgs,
   NumCpuCores |-> h.NumCpuCores,
   NumCpuThreads |-> h.NumCpuThreads,
   CpuModel |-> h.CpuModel,
   MemorySize |-> h.OverallMemoryUsage,
   OverallMemoryUsage |-> h.MemorySize,
   FreeMemory |-> FreeMemory(h)]

\* Lines 46-54: the field names of hostStat in declaration order (28-44).
Headers ==
  <<"Cluster", "Host", "Version", "Build", "Vendor", "Model", "NumCpuPkgs",
    "NumCpuCores", "NumCpuThreads", "CpuModel", "TotalCPU", "FreeCPU",
    "OverallMemoryUsage", "MemorySize", "FreeMemory">>

\* Lines 56-76.
Slice(r) ==
  <<r.Cluster,
    r.Host,
    r.Version,
    r.Build,
    r.Vendor,
    r.Model,
    FormatInt(Int64(r.NumCpuPkgs)),
    FormatInt(Int64(r.NumCpuCores)),
    FormatInt(Int64(r.NumCpuThreads)),
    r.CpuModel,
    FormatInt(Int64(r.TotalCPU)),
    FormatInt(Int64(r.FreeCPU)),
    ByteSizeString(Mul(Mul(Int64(r.MemorySize), Int64(Int32(1024))), Int64(Int32(1024)))),
    ByteSizeString(Int64(r.OverallMemoryUsage)),
    ByteSizeString(Int64(r.FreeMemory))>>

\* One pass of the loop body at lines 235-262 for one host.
InitRecord ==
  /\ PipeInit
  /\ pcRec = "host"
  /\ hs \in HostInputs
  /\ stats = NoRecord
  /\ row = NoRecord

\* Lines 241-260.
MakeStats ==
  /\ pcRec = "host"
  /\ stats' = HostStatOf(hs)
  /\ pcRec' = "stats"
  /\ UNCHANGED <<pipeVars, hs, row>>

\* Line 261: hostStat.Slice(stats).
Flatten ==
  /\ pcRec = "stats"
  /\ row' = Slice(stats)
  /\ pcRec' = "row"
  /\ UNCHANGED <<pipeVars, hs, stats>>

NextRecord == MakeStats \/ Flatten

SpecRecord == InitRecord /\ [][NextRecord]_vars

(***************************************************************************)
(* Definitions used by the properties.                                     *)
(***************************************************************************)
RECURSIVE ConcatData(_)
ConcatData(k) == IF k = 0 THEN <<>> ELSE ConcatData(k - 1) \o Data[k]

RECURSIVE SumSignals(_)
SumSignals(k) == IF k = 0 THEN 0 ELSE SumSignals(k - 1) + signals[k]

IsData(r) == r # HeaderRow
DataRows(f) == SelectSeq(f, IsData)
RowsOf(j, f) == SelectSeq(f, LAMBDA r : r[1] = j)

Merging == pcMain \in {"merge", "done"}
ProcessEnded == exited \/ pcMain = "done"
Busy == {"connect", "sigfail", "init", "hosts", "sigdone"}
Holders(j) == {w \in spawned : job[w] = j /\ pcW[w] \in Busy}

\* C1: main appends rows to the file only after it has received exactly
\* vcenterCount tokens from done (it is in the merge loop only with
\* recvd = vcenterCount), every token it received was sent by a worker, and
\* the workers never send more than vcenterCount tokens in a run.
C1_BarrierBeforeExport ==
  /\ (Merging \/ mergeIdx > 0 \/ DataRows(file) # <<>>) => recvd = vcenterCount
  /\ recvd + done = SumSignals(vcenterCount)
  /\ SumSignals(vcenterCount) <= vcenterCount

C1_Witness ==
  /\ vcenterCount = 2
  /\ pcMain = "merge"
  /\ mergeIdx = 1
  /\ DataRows(file) # <<>>
  /\ recvd = 2

\* C2: as long as no csvExport call failed, the data rows of the file are the
\* concatenation of Data of the endpoints merged so far, in configuration
\* order, each endpoint's rows in the order Init appended them; when main
\* has finished, every endpoint has been merged.
C2_MergeOrder ==
  /\ ~exportFault => DataRows(file) = ConcatData(mergeIdx)
  /\ pcMain = "done" => mergeIdx = vcenterCount

C2_Witness ==
  /\ pcMain = "done"
  /\ ~exportFault
  /\ vcenterCount = 2
  /\ takers[1] = <<2>>
  /\ takers[2] = <<1>>
  /\ file = <<HeaderRow, Row(1, 1), Row(1, 2), Row(2, 1), Row(2, 2)>>

\* C3: an endpoint whose Connect failed has no session, no Data and no row in
\* the file, and its worker sends its completion token (it is about to, or
\* did so exactly once); the step on which Connect fails changes no
\* endpoint's Data and blocks nothing; and when main has finished without a
\* csvExport failure the rows of every other endpoint are its Data.
C3_State ==
  /\ \A j \in connFailed :
       /\ ~client[j]
       /\ Data[j] = <<>>
       /\ RowsOf(j, file) = <<>>
       /\ \/ signals[j] = 1
          \/ signals[j] = 0 /\ \E w \in Holders(j) : pcW[w] = "sigfail"
  /\ (pcMain = "done" /\ ~exportFault) =>
       \A j \in Endpoints \ connFailed : RowsOf(j, file) = Data[j]

C3_Step ==
  (connFailed' # connFailed) =>
    /\ Data' = Data
    /\ client' = client
    /\ file' = file
    /\ <<vcenters, closed, done>>' = <<vcenters, closed, done>>

C3_ConnectionFailureIsolated == [](C3_State) /\ [][C3_Step]_vars

C3_Witness ==
  /\ pcMain = "done"
  /\ ~exportFault
  /\ vcenterCount = 2
  /\ connFailed = {1}
  /\ signals[1] = 1
  /\ file = <<HeaderRow, Row(2, 1), Row(2, 2)>>

\* C4: an endpoint whose collection failed (in CreateContainerView, Retrieve
\* or RetrieveOne), whatever number of rows Init had appended to its Data
\* before, has no row in the file.
C4_FailedCollectionExportsNothing ==
  \A j \in collFailed : RowsOf(j, file) = <<>>

C4_Witness ==
  \E j \in collFailed : Len(Data[j]) >= 1

\* C5: every job a worker received sends its completion token exactly once,
\* whatever its outcome: never twice, and once the process has ended every
\* received job has sent one.
C5_EveryJobSignalsOnce ==
  /\ \A j \in Endpoints : signals[j] <= 1
  /\ ProcessEnded => \A j \in Endpoints : takers[j] # <<>> => signals[j] = 1

\* C6: a collection failure on one endpoint stays with that endpoint: the
\* run still ends with the merge done, and (no csvExport call failing) the
\* file holds the Data of every endpoint whose collection succeeded.
C6_CollectionErrorIsolated ==
  (ProcessEnded /\ collFailed # {}) =>
    /\ pcMain = "done"
    /\ ~exportFault =>
         \A j \in Endpoints \ collFailed : RowsOf(j, file) = Data[j]

\* C7: every job is received by at most one worker and held by at most one,
\* once the channel is closed and drained every job has been received by
\* exactly one worker, and a job's session handle and Data are changed only
\* by the one worker that received it.
C7_State ==
  \A j \in Endpoints :
    /\ Len(takers[j]) <= 1
    /\ Cardinality(Holders(j)) <= 1
    /\ (closed /\ vcenters = <<>>) => Len(takers[j]) = 1

C7_Step ==
  \A j \in Endpoints :
    (Data'[j] # Data[j] \/ client'[j] # client[j]) =>
      \E w \in spawned :
        /\ takers[j] = <<w>>
        /\ Holders(j) = {w}
        /\ pcW'[w] # pcW[w] \/ hi'[w] # hi[w]

C7_ExactlyOneReceiver == [](C7_State) /\ [][C7_Step]_vars

C7_Witness ==
  /\ vcenterCount = 2
  /\ closed
  /\ vcenters = <<>>
  /\ job[1] = 2 /\ pcW[1] = "hosts" /\ Len(Data[2]) = 1
  /\ job[2] = 1 /\ pcW[2] = "hosts" /\ Len(Data[1]) = 1

\* C8: from the moment main is in the merge loop (where it first reads
\* vcenter.Data) no worker is processing a job or can receive one, so Data
\* never changes again; and the file is changed only by steps of main.
C8_State ==
  Merging =>
    /\ closed
    /\ vcenters = <<>>
    /\ \A w \in spawned : pcW[w] \in {"recv", "exit"}

C8_Step ==
  /\ Merging => Data' = Data
  /\ file' # file =>
       /\ pcMain \in {"newcsv", "merge"}
       /\ pcMain' # pcMain \/ mergeIdx' # mergeIdx
       /\ wVars' = wVars

C8_NoRaceOnData == [](C8_State) /\ [][C8_Step]_vars

C8_Witness ==
  /\ vcenterCount = 2
  /\ pcMain = "merge"
  /\ mergeIdx = 1
  /\ Len(Data[1]) = 2
  /\ Len(Data[2]) = 2
  /\ pcW[1] = "recv"
  /\ pcW[2] = "exit"

\* C9: with no endpoint in the configuration no worker is started, no
\* connection is attempted, the process is not ended by an error, main is
\* never blocked (it always has a step until it is done), and, newCsv having
\* written the header, the file holds the header row and nothing else.
C9_NoEndpoints ==
  (pcMain # "load" /\ vcenterCount = 0) =>
    /\ spawned = {}
    /\ connAttempted = {}
    /\ ~exited
    /\ pcMain # "done" => ENABLED MainNext
    /\ (pcMain # "newcsv" /\ ~headerFault) => file = <<HeaderRow>>

C9_Witness ==
  /\ cfgOutcome = "ok"
  /\ vcenterCount = 0
  /\ pcMain = "done"
  /\ file = <<HeaderRow>>

\* C10: when config.json could not be opened or decoded, no worker attempts
\* a connection to any endpoint.
C10_NoConnectAfterConfigError ==
  ConfigError(cfgOutcome) => connAttempted = {}

\* C11: when appending an endpoint's rows to the sink has failed, the run
\* ends in an error outcome: main never reaches its normal end, where it
\* prints "Results saved".  (Rows appended before the failure stay in the
\* file: no action removes a row.)
C11_SinkErrorFatal ==
  exportFault => pcMain # "done"

\* C12: the header row is written at most once, and only by newCsv, which
\* runs before any worker is started and before any data row is appended;
\* the header is never anywhere but on the first line; and once newCsv has
\* created the file and written the header, the header is the first line of
\* the output for the rest of the run.
HeaderCount(f) == Len(SelectSeq(f, LAMBDA r : r = HeaderRow))

C12_State ==
  /\ HeaderCount(file) <= 1
  /\ \A i \in 1..Len(file) : file[i] = HeaderRow => i = 1
  /\ pcMain \in {"load", "newcsv"} => (spawned = {} /\ file = <<>>)
  /\ (pcMain \notin {"load", "newcsv"} /\ ~headerFault) =>
       (file # <<>> /\ file[1] = HeaderRow)

C12_Step ==
  HeaderCount(file') # HeaderCount(file) =>
    /\ pcMain = "newcsv"
    /\ spawned = {}
    /\ file = <<>>
    /\ file' = <<HeaderRow>>

C12_HeaderOnceAndFirst == [](C12_State) /\ [][C12_Step]_vars

C12_Witness ==
  /\ pcMain = "done"
  /\ vcenterCount = 2
  /\ ~headerFault
  /\ ~exportFault
  /\ Len(file) = 5
  /\ file[1] = HeaderRow

\* C13: Headers() and Slice(record) have the same length, and the value at
\* every position i of Slice(record) is the rendering of the record field
\* whose name is at position i of Headers().
StringFields == {"Cluster", "Host", "Version", "Build", "Vendor", "Model", "CpuModel"}
CountFields == {"NumCpuPkgs", "NumCpuCores", "NumCpuThreads", "TotalCPU", "FreeCPU"}
MiBToBytes(a) == Mul(Mul(a, ToBytes(1024, Len(a))), ToBytes(1024, Len(a)))

\* The rendering Slice gives to the field named f of record r.
Cell(f, r) ==
  CASE f \in StringFields -> r[f]
    [] f \in CountFields -> FormatInt(Int64(r[f]))
    [] f = "MemorySize" -> ByteSizeString(MiBToBytes(Int64(r[f])))
    [] OTHER -> ByteSizeString(Int64(r[f]))

C13_SliceFollowsHeaders ==
  pcRec = "row" =>
    /\ Len(row) = Len(Headers)
    /\ \A i \in 1..Len(Headers) : row[i] = Cell(Headers[i], stats)

\* C14: in every record the collector emits, the free-memory field equals
\* the record's total-memory-size field (MemorySize) minus its used-memory
\* field (OverallMemoryUsage), the used memory counted in bytes (whether the
\* field already holds bytes or holds the source's MiB, times 1024 x 1024).
Wide(a) == Extend(a, WideBytes)

C14_FreeMemoryOfRecord ==
  pcRec \in {"stats", "row"} =>
    \/ Wide(stats.FreeMemory) =
         Sub(Wide(stats.MemorySize), Wide(stats.OverallMemoryUsage))
    \/ Wide(stats.FreeMemory) =
         Sub(Wide(stats.MemorySize), MiBToBytes(Wide(stats.OverallMemoryUsage)))

\* C15: in every record the collector emits, TotalCPU is an int64 equal to
\* the host's per-core MHz times its core count (the exact product: nothing
\* wraps), and FreeCPU is an int64 equal to TotalCPU minus the host's
\* overall CPU usage.
C15_FreeCpuExact ==
  pcRec \in {"stats", "row"} =>
    /\ Len(stats.TotalCPU) = Int64Bytes
    /\ Len(stats.FreeCPU) = Int64Bytes
    /\ Wide(stats.TotalCPU) = Mul(Wide(hs.CpuMhz), Wide(hs.NumCpuCores))
    /\ Wide(stats.FreeCPU) = Sub(Wide(stats.TotalCPU), Wide(hs.OverallCpuUsage))

C15_Witness ==
  /\ pcRec = "row"
  /\ hs.CpuMhz = Int32(2500)
  /\ hs.NumCpuCores = Int16(8)
  /\ hs.OverallCpuUsage = Int32(5000)
  /\ row[11] = <<"2", "0", "0", "0", "0">>
  /\ row[12] = <<"1", "5", "0", "0", "0">>

\* C16: a worker is inside Init (collecting) only for a job whose Connect
\* succeeded and set the session handle; a worker enters Init only from a
\* successful Connect; and for a job whose Connect failed the worker goes
\* from the failure straight to the completion signal and on to the next
\* job: Init and Disconnect are not run for it, its Data stays empty, its
\* handle stays unset, and its token is sent (or its worker is at the send).
C16_State ==
  /\ \A w \in spawned :
       pcW[w] \in {"init", "hosts"} =>
         (client[job[w]] /\ job[w] \notin connFailed)
  /\ \A j \in connFailed :
       /\ ~client[j]
       /\ Data[j] = <<>>
       /\ j \notin collFailed
       /\ j \notin discFailed
       /\ \A w \in Holders(j) : pcW[w] = "sigfail"
       /\ signals[j] = 1 \/ Holders(j) # {}

C16_Step ==
  \A w \in spawned :
    /\ (pcW'[w] = "init" /\ pcW[w] # "init") =>
         (pcW[w] = "connect" /\ ~client[job[w]] /\ client'[job[w]])
    /\ pcW[w] = "sigfail" => pcW'[w] \in {"sigfail", "recv"}
    /\ (pcW[w] = "connect" /\ pcW'[w] = "sigfail") => Data' = Data

C16_NoCollectWithoutConnect == [](C16_State) /\ [][C16_Step]_vars

C16_Witness ==
  /\ vcenterCount = 2
  /\ connFailed = {2}
  /\ signals[2] = 1
  /\ Data[2] = <<>>
  /\ Len(Data[1]) = 2
  /\ recvd = 2

\* C17: the completion token of a connected job is sent only after
\* Disconnect has run; a Disconnect that fails changes no job's Data and is
\* followed by the token all the same; and when main has finished the
\* export without a sink failure, the rows of a job whose Disconnect failed
\* are in the file.
C17_State ==
  /\ \A j \in discFailed :
       /\ client[j]
       /\ \A w \in Holders(j) : pcW[w] = "sigdone"
       /\ signals[j] = 1 \/ Holders(j) # {}
  /\ (pcMain = "done" /\ ~exportFault) =>
       \A j \in discFailed : RowsOf(j, file) = Data[j]

C17_Step ==
  /\ discFailed' # discFailed => Data' = Data
  /\ \A w \in spawned :
       (pcW'[w] = "sigdone" /\ pcW[w] # "sigdone") => pcW[w] = "hosts"
  /\ \A j \in DOMAIN signals :
       (signals'[j] # signals[j] /\ client[j]) =>
         \E w \in spawned : job[w] = j /\ pcW[w] = "sigdone" /\ pcW'[w] # "sigdone"

C17_DisconnectBestEffort == [](C17_State) /\ [][C17_Step]_vars

C17_Witness ==
  /\ pcMain = "done"
  /\ ~exportFault
  /\ vcenterCount = 2
  /\ discFailed = {2}
  /\ connFailed = {}
  /\ file = <<HeaderRow, Row(1, 1), Row(2, 1), Row(2, 2)>>

\* C18: under fair scheduling every run terminates with every submitted job
\* taken and run to its completion signal, every started worker returned
\* from its loop over the closed and drained queue, and main past the
\* barrier and through the export; and no state short of the end of the
\* process is a deadlock.
C18_Finished ==
  /\ pcMain = "done"
  /\ recvd = vcenterCount
  /\ \A j \in Endpoints : takers[j] # <<>> /\ signals[j] = 1
  /\ \A w \in spawned : pcW[w] = "exit"

C18_EveryRunTerminates ==
  /\ <>C18_Finished
  /\ [](ProcessEnded \/ ENABLED Next)

\* C19: the job queue never holds more than vcenterCount jobs and the done
\* channel never more than vcenterCount tokens, vcenterCount being the
\* capacity of both; so main, with a job left to submit, can always submit
\* it, and a worker about to send its token can always send it, whether or
\* not main has begun to receive.
C19_ChannelsNeverBlock ==
  /\ Len(vcenters) <= vcenterCount
  /\ done <= vcenterCount
  /\ (~exited /\ pcMain = "submit" /\ submitIdx < vcenterCount) =>
       (Len(vcenters) < ChanCap /\ ENABLED Submit)
  /\ \A w \in spawned :
       /\ (Alive /\ pcW[w] = "sigfail") => (done < ChanCap /\ ENABLED SendDoneFail(w))
       /\ (Alive /\ pcW[w] = "sigdone") => (done < ChanCap /\ ENABLED SendDone(w))

C19_Witness ==
  /\ vcenterCount = 2
  /\ pcMain = "submit"
  /\ recvd = 0
  /\ done = 1
  /\ connFailed = {1}
  /\ pcW[2] = "sigdone"
  /\ job[2] = 2

\* C20: the worker goroutine that receives and processes a job is the one
\* whose id is the Worker number stored on that job; so no worker processes
\* more than one job, and when main has finished every worker has processed
\* exactly one.
JobsTakenBy(w) ==
  {j \in Endpoints : \E i \in 1..Len(takers[j]) : takers[j][i] = w}

C20_WorkerNumberIsProcessor ==
  /\ \A j \in Endpoints :
       \A i \in 1..Len(takers[j]) : takers[j][i] = Worker[j]
  /\ \A w \in spawned : Cardinality(JobsTakenBy(w)) <= 1
  /\ pcMain = "done" => \A w \in spawned : Cardinality(JobsTakenBy(w)) = 1

====
